---- MODULE Spec2Model ----
(***************************************************************************)
(* Model of lib/transaction.js: TransactionDatabase, a wrapper that        *)
(* serialises calls to one sqlite connection around BEGIN/COMMIT/ROLLBACK. *)
(*                                                                         *)
(* The program is single threaded: every action below is one run to        *)
(* completion of a piece of JavaScript, either a call made by the          *)
(* application (a wrapped method, beginTransaction, tr.commit,             *)
(* tr.rollback), a completion callback fired by the driver, or a timer     *)
(* armed by _wait.  The driver may complete outstanding work in any order. *)
(***************************************************************************)
EXTENDS Integers, Sequences, FiniteSets, TLC

MaxOps   == 3   \* wrapped calls the application makes
MaxTx    == 3   \* beginTransaction calls the application makes
MaxCalls == 2   \* tr.commit / tr.rollback calls the application makes

\* A second, deeper exploration: fewer operations and transactions, more
\* commit/rollback calls, and 'error' events of the connection.
DeepOps   == 1
DeepTx    == 2
DeepCalls == 3
MaxErrors == 1  \* 'error' events the connection emits

\* A third exploration, with a driver that breaks its contract and fires a
\* completion callback a second time.
DupOps   == 2
DupTx    == 1
DupCalls == 1
MaxDups  == 1   \* duplicated completions

\* A fourth, small exploration for the progress of two transactions.
PairOps   == 1
PairTx    == 2
PairCalls == 2

NULL == 0       \* null reference; also "no finish call" in a command record

VARIABLES
  lock,                \* transdb._lock
  queue,               \* transdb.queue : items [type, id]
  currentTransaction,  \* transdb.currentTransaction: NULL, or the begin request
                       \* that set it (the reference is always self.db; the code
                       \* only ever tests it against null)
  installed,           \* the begin request whose closures are tr.commit/tr.rollback
                       \* (tr is self.db for every transaction, so each
                       \* beginTransaction overwrites the previous closures)
  finished,            \* the `finished` flag of each beginTransaction closure
  began,               \* number of beginTransaction calls made so far
  waiters,             \* continuations polling in _wait (timers armed)
  pending,             \* BEGIN/COMMIT/ROLLBACK commands the driver has not completed
  inflight,            \* locking operations the driver has not completed
  sent,                \* history: the operations handed to the driver, in order
  cmds,                \* history: the BEGIN/COMMIT/ROLLBACK commands handed to the driver
  ops,                 \* history: wrapped calls made, [type, under, after]
  calls,               \* history: commit/rollback calls made, [kind, on, tx]
  beginCb,             \* history: results delivered to each beginTransaction callback
  callCb,              \* history: results delivered to each commit/rollback callback
  seen,                \* history: what the commit/rollback callbacks invoked in
                       \* this step found, [call, cur, queue, fin]
  thrown,              \* history: exceptions thrown out of a callback
  halted,              \* the process died of an uncaught exception
  lastErr,             \* history: the command completed in this step failed
  errors,              \* history: 'error' events emitted, [active]
  dups                 \* history: number of duplicated completions

vars == <<lock, queue, currentTransaction, installed, finished, began, waiters,
          pending, inflight, sent, cmds, ops, calls, beginCb, callCb, seen, thrown,
          halted, lastErr, errors, dups>>

Tx == 1..MaxTx

\* lockMethods: the wrapped methods are either locking or not
lockMethods == {"lock"}
OpTypes == {"lock", "simple"}

----------------------------------------------------------------------------
(* The mutable program state as one record, so that the nested calls of    *)
(* the source compose as operators from state to state.                    *)

S == [lock |-> lock, queue |-> queue, currentTransaction |-> currentTransaction,
      installed |-> installed, finished |-> finished, waiters |-> waiters,
      pending |-> pending, inflight |-> inflight, sent |-> sent, cmds |-> cmds,
      beginCb |-> beginCb, callCb |-> callCb, seen |-> <<>>, thrown |-> thrown]

\* An uncaught exception ends the process unless the application handles
\* 'uncaughtException'; both outcomes are allowed.
Set(s) ==
  /\ lock' = s.lock
  /\ queue' = s.queue
  /\ currentTransaction' = s.currentTransaction
  /\ installed' = s.installed
  /\ finished' = s.finished
  /\ waiters' = s.waiters
  /\ pending' = s.pending
  /\ inflight' = s.inflight
  /\ sent' = s.sent
  /\ cmds' = s.cmds
  /\ beginCb' = s.beginCb
  /\ callCb' = s.callCb
  /\ seen' = s.seen
  /\ thrown' = s.thrown
  /\ IF Len(s.thrown) > Len(thrown)
       THEN halted' \in BOOLEAN
       ELSE halted' = halted

\* self._exec(sql, cb): hand a command to the driver; cb fires on completion.
\* c = [cmd, tx, call, comp]: the closure (tx) and the finish call whose
\* callback is cb; comp marks the wrapper function(){ cb(error) }.
_exec(s, c) ==
  [s EXCEPT !.pending = @ \cup {c},
            !.cmds = @ \cup {c}]

\* a faulty _wait: the continuation runs without looking at _lock
_wait_nocheck(s, c) == _exec(s, c)

\* _wait(callback): callback runs at once when _lock is 0, otherwise a
\* 1 ms timer re-checks.  All three callers continue with _exec (their
\* `if (err)` branch is dead: check() calls callback with no argument).
_wait(s, c) ==
  IF s.lock = 0 THEN _exec(s, c)
  ELSE [s EXCEPT !.waiters = @ \cup {c}]

\* beginTransaction(callback), b identifying the call and its callback
beginTransaction(s, b) ==
  IF s.currentTransaction # NULL
    THEN [s EXCEPT !.queue = Append(@, [type |-> "transaction", id |-> b])]
    ELSE _wait([s EXCEPT !.currentTransaction = b,
                         !.installed = b,
                         !.finished[b] = FALSE],
               [cmd |-> "BEGIN", tx |-> b, call |-> NULL, comp |-> FALSE])

\* item.object[item.method].apply(item.object, item.args)
apply(s, item) ==
  IF item.type = "transaction"
    THEN beginTransaction(s, item.id)
    ELSE [s EXCEPT !.sent = Append(@, item),
                   !.inflight = IF item.type \in lockMethods
                                  THEN @ \cup {item.id} ELSE @]

\* a faulty _runQueue: the drain forgets to count the locking items
RECURSIVE _runQueue_nolock(_)
_runQueue_nolock(s) ==
  IF Len(s.queue) = 0 THEN s
  ELSE LET item == Head(s.queue)
           s2 == apply([s EXCEPT !.queue = Tail(@)], item)
       IN IF item.type = "transaction" THEN s2 ELSE _runQueue_nolock(s2)

\* _runQueue()
RECURSIVE _runQueue(_)
_runQueue(s) ==
  IF Len(s.queue) = 0 THEN s
  ELSE LET item == Head(s.queue)
           s1 == [s EXCEPT !.queue = Tail(@),
                           !.lock = IF item.type = "lock" THEN @ + 1 ELSE @]
           s2 == apply(s1, item)
       IN IF item.type = "transaction" THEN s2 ELSE _runQueue(s2)

\* Invoking the callback given to tr.commit / tr.rollback.  cb = [call, comp].
\* The wrapper function(){ cb(error) } reads the undeclared name `error`
\* and throws a ReferenceError before cb is reached.
invoke(s, cb, e) ==
  IF cb.call = NULL THEN s     \* function() {} of the 'error' listener
  ELSE IF cb.comp
    THEN [s EXCEPT !.thrown = Append(@, "ReferenceError")]
    ELSE [s EXCEPT !.callCb[cb.call] = Append(@, e),
                   !.seen = Append(@, [call |-> cb.call,
                                       cur |-> s.currentTransaction,
                                       queue |-> s.queue,
                                       fin |-> s.finished])]

\* a faulty finishTransaction: the queue is not drained
finishTransaction_nodrain(s, k, e, cb1) ==
  invoke([s EXCEPT !.finished[k] = TRUE, !.currentTransaction = NULL], cb1, e)

\* a faulty finishTransaction: the callback is invoked before the cleanup
finishTransaction_cbfirst(s, k, e, cb1) ==
  _runQueue([invoke(s, cb1, e) EXCEPT !.finished[k] = TRUE,
                                      !.currentTransaction = NULL])

\* a faulty finishTransaction: a failed command leaves the transaction open
finishTransaction_onsuccess(s, k, e, cb1) ==
  IF e = "err" THEN invoke(s, cb1, e)
  ELSE invoke(_runQueue([s EXCEPT !.finished[k] = TRUE,
                                  !.currentTransaction = NULL]),
              cb1, e)

\* finishTransaction(e, cb1) of closure k
finishTransaction(s, k, e, cb1) ==
  invoke(_runQueue([s EXCEPT !.finished[k] = TRUE,
                             !.currentTransaction = NULL]),
         cb1, e)

\* tr.rollback(cb) of closure k
rollback(s, k, cb) ==
  IF s.finished[k]
    THEN invoke(s, cb, "already")
    ELSE _wait(s, [cmd |-> "ROLLBACK", tx |-> k, call |-> cb.call, comp |-> cb.comp])

\* tr.commit(cb) of closure k
commit(s, k, cb) ==
  IF s.finished[k]
    THEN invoke(s, cb, "already")
    ELSE _wait(s, [cmd |-> "COMMIT", tx |-> k, call |-> cb.call, comp |-> cb.comp])

\* a faulty wrapDbMethod: _lock is counted when the call is queued
wrapDbMethod_eager(s, item) ==
  LET s1 == [s EXCEPT !.lock = IF item.type \in lockMethods THEN @ + 1 ELSE @]
  IN IF s.currentTransaction = NULL
       THEN apply(s1, item)
       ELSE [s1 EXCEPT !.queue = Append(@, item)]

\* the function returned by wrapDbMethod, called with a new operation
wrapDbMethod(s, item) ==
  IF s.currentTransaction = NULL
    THEN apply([s EXCEPT !.lock = IF item.type \in lockMethods THEN @ + 1 ELSE @],
               item)
    ELSE [s EXCEPT !.queue = Append(@, item)]

\* a faulty newCallback: the balance test lets _lock reach -1
newCallback_neg(s) ==
  IF s.lock < 0
    THEN [s EXCEPT !.thrown = Append(@, "Locks are not balanced")]
    ELSE [s EXCEPT !.lock = @ - 1]

\* newCallback: the hijacked completion callback of a locking operation
newCallback(s) ==
  IF s.lock < 1
    THEN [s EXCEPT !.thrown = Append(@, "Locks are not balanced")]
    ELSE [s EXCEPT !.lock = @ - 1]

----------------------------------------------------------------------------
Init ==
  /\ lock = 0
  /\ queue = <<>>
  /\ currentTransaction = NULL
  /\ installed = NULL
  /\ finished = [k \in Tx |-> FALSE]
  /\ began = 0
  /\ waiters = {}
  /\ pending = {}
  /\ inflight = {}
  /\ sent = <<>>
  /\ cmds = {}
  /\ ops = <<>>
  /\ calls = <<>>
  /\ beginCb = [k \in Tx |-> <<>>]
  /\ callCb = <<>>
  /\ seen = <<>>
  /\ thrown = <<>>
  /\ halted = FALSE
  /\ lastErr = FALSE
  /\ errors = <<>>
  /\ dups = 0

\* the last queued beginTransaction request of queue q, NULL when there is none
RECURSIVE LastBegin(_)
LastBegin(q) ==
  IF Len(q) = 0 THEN NULL
  ELSE IF q[Len(q)].type = "transaction" THEN q[Len(q)].id
  ELSE LastBegin(SubSeq(q, 1, Len(q) - 1))

\* The application calls a wrapped method.  The history keeps the
\* transaction that was current and the last begin request queued ahead.
CallN(type, n) ==
  /\ ~halted
  /\ Len(ops) < n
  /\ ops' = Append(ops, [type |-> type, under |-> currentTransaction,
                       after |-> LastBegin(queue)])
  /\ Set(wrapDbMethod(S, [type |-> type, id |-> Len(ops) + 1]))
  /\ lastErr' = FALSE
  /\ UNCHANGED <<began, calls, errors, dups>>

Call(type) == CallN(type, MaxOps)

\* The application calls beginTransaction.
BeginN(n) ==
  /\ ~halted
  /\ began < n
  /\ began' = began + 1
  /\ Set(beginTransaction(S, began + 1))
  /\ lastErr' = FALSE
  /\ UNCHANGED <<ops, calls, errors, dups>>

Begin == BeginN(MaxTx)

\* The handle of request h has been delivered to the application.
HasHandle(h) == h \in 1..began /\ \E i \in 1..Len(beginCb[h]) : beginCb[h][i] = "handle"

\* The application calls commit() on the handle it received for request h.
\* The handle is self.db, so the closure that runs is the installed one.
CommitN(h, n) ==
  /\ ~halted
  /\ HasHandle(h)
  /\ Len(calls) < n
  /\ calls' = Append(calls, [kind |-> "commit", on |-> h, tx |-> installed])
  /\ Set(commit([S EXCEPT !.callCb = Append(@, <<>>)], installed,
                [call |-> Len(calls) + 1, comp |-> FALSE]))
  /\ lastErr' = FALSE
  /\ UNCHANGED <<began, ops, errors, dups>>

Commit(h) == CommitN(h, MaxCalls)

\* The application calls rollback() on the handle it received for request h.
RollbackN(h, n) ==
  /\ ~halted
  /\ HasHandle(h)
  /\ Len(calls) < n
  /\ calls' = Append(calls, [kind |-> "rollback", on |-> h, tx |-> installed])
  /\ Set(rollback([S EXCEPT !.callCb = Append(@, <<>>)], installed,
                  [call |-> Len(calls) + 1, comp |-> FALSE]))
  /\ lastErr' = FALSE
  /\ UNCHANGED <<began, ops, errors, dups>>

Rollback(h) == RollbackN(h, MaxCalls)

\* The driver fires the completion callback of locking operation o.
Complete(o) ==
  /\ ~halted
  /\ o \in inflight
  /\ Set(newCallback([S EXCEPT !.inflight = @ \ {o}]))
  /\ lastErr' = FALSE
  /\ UNCHANGED <<began, ops, calls, errors, dups>>

\* A timer armed by _wait fires and finds _lock at 0.  (While _lock is not
\* 0 the timer re-arms itself and nothing changes.)
Check(c) ==
  /\ ~halted
  /\ c \in waiters
  /\ lock = 0
  /\ Set(_exec([S EXCEPT !.waiters = @ \ {c}], c))
  /\ lastErr' = FALSE
  /\ UNCHANGED <<began, ops, calls, errors, dups>>

\* The driver completes 'BEGIN;'.
BeginDone(c, err) ==
  /\ ~halted
  /\ c \in pending /\ c.cmd = "BEGIN"
  /\ Set([S EXCEPT !.pending = @ \ {c},
                   !.beginCb[c.tx] = Append(@, IF err THEN "err" ELSE "handle")])
  /\ lastErr' = err
  /\ UNCHANGED <<began, ops, calls, errors, dups>>

\* The driver completes 'COMMIT;'.
CommitDone(c, err) ==
  /\ ~halted
  /\ c \in pending /\ c.cmd = "COMMIT"
  /\ LET s == [S EXCEPT !.pending = @ \ {c}]
     IN Set(IF err
              THEN rollback(s, s.installed, [call |-> c.call, comp |-> TRUE])
              ELSE finishTransaction(s, c.tx, "ok", [call |-> c.call, comp |-> c.comp]))
  /\ lastErr' = err
  /\ UNCHANGED <<began, ops, calls, errors, dups>>

\* The driver completes 'ROLLBACK;'.
RollbackDone(c, err) ==
  /\ ~halted
  /\ c \in pending /\ c.cmd = "ROLLBACK"
  /\ Set(finishTransaction([S EXCEPT !.pending = @ \ {c}], c.tx,
                           IF err THEN "err" ELSE "ok",
                           [call |-> c.call, comp |-> c.comp]))
  /\ lastErr' = err
  /\ UNCHANGED <<began, ops, calls, errors, dups>>

Next ==
  \/ \E t \in OpTypes : Call(t)
  \/ Begin
  \/ \E h \in Tx : Commit(h)
  \/ \E h \in Tx : Rollback(h)
  \/ \E o \in inflight : Complete(o)
  \/ \E c \in waiters : Check(c)
  \/ \E c \in pending, err \in BOOLEAN : BeginDone(c, err)
  \/ \E c \in pending, err \in BOOLEAN : CommitDone(c, err)
  \/ \E c \in pending, err \in BOOLEAN : RollbackDone(c, err)

Spec == Init /\ [][Next]_vars

----------------------------------------------------------------------------
(* The connection emits 'error'.                                           *)

\* Request b is Active: its BEGIN succeeded, no commit() or rollback() has
\* been called on its closure.
Active(b) ==
  /\ HasHandle(b)
  /\ ~finished[b]
  /\ \A i \in 1..Len(calls) : calls[i].tx # b

\* `this.currentTransaction` inside the 'error' listener.  The listener is
\* registered on this.db, so its `this` is the connection db, and no code
\* ever sets a currentTransaction property on db (only on transdb).
emitterCurrentTransaction == NULL

\* the listener of this.db.on('error', ...)
onError(s) ==
  IF emitterCurrentTransaction # NULL
    THEN rollback(s, s.installed, [call |-> NULL, comp |-> FALSE])
    ELSE s

\* The connection emits 'error'.  The history keeps the Active transaction.
ErrorEvent ==
  /\ ~halted
  /\ Len(errors) < MaxErrors
  /\ errors' = Append(errors,
        [active |-> IF \E b \in Tx : Active(b)
                      THEN CHOOSE b \in Tx : Active(b) ELSE NULL])
  /\ Set(onError(S))
  /\ lastErr' = FALSE
  /\ UNCHANGED <<began, ops, calls, dups>>

DeepNext ==
  \/ \E t \in OpTypes : CallN(t, DeepOps)
  \/ BeginN(DeepTx)
  \/ \E h \in Tx : CommitN(h, DeepCalls)
  \/ \E h \in Tx : RollbackN(h, DeepCalls)
  \/ ErrorEvent
  \/ \E o \in inflight : Complete(o)
  \/ \E c \in waiters : Check(c)
  \/ \E c \in pending, err \in BOOLEAN : BeginDone(c, err)
  \/ \E c \in pending, err \in BOOLEAN : CommitDone(c, err)
  \/ \E c \in pending, err \in BOOLEAN : RollbackDone(c, err)

DeepSpec == Init /\ [][DeepNext]_vars

----------------------------------------------------------------------------
(* A driver that fires the completion callback of a locking operation a    *)
(* second time.                                                            *)

DupComplete(o) ==
  /\ ~halted
  /\ dups < MaxDups
  /\ \E i \in 1..Len(sent) : sent[i].id = o /\ sent[i].type \in lockMethods
  /\ o \notin inflight
  /\ dups' = dups + 1
  /\ Set(newCallback(S))
  /\ lastErr' = FALSE
  /\ UNCHANGED <<began, ops, calls, errors>>

DupNext ==
  \/ \E t \in OpTypes : CallN(t, DupOps)
  \/ BeginN(DupTx)
  \/ \E h \in Tx : CommitN(h, DupCalls)
  \/ \E h \in Tx : RollbackN(h, DupCalls)
  \/ \E o \in 1..Len(ops) : DupComplete(o)
  \/ \E o \in inflight : Complete(o)
  \/ \E c \in waiters : Check(c)
  \/ \E c \in pending, err \in BOOLEAN : BeginDone(c, err)
  \/ \E c \in pending, err \in BOOLEAN : CommitDone(c, err)
  \/ \E c \in pending, err \in BOOLEAN : RollbackDone(c, err)

DupSpec == Init /\ [][DupNext]_vars

----------------------------------------------------------------------------
(* Vocabulary of the claims *)

\* a command of kind k is handed to the driver in this step
Issued(k) == \E c \in cmds' \ cmds : c.cmd = k

\* operation o (an index of ops) was deferred: issued while a transaction was current
Deferred(o) == ops[o].under # NULL

\* operation o has been handed to the driver
Dispatched(o) == \E i \in 1..Len(sent) : sent[i].id = o

\* C1: in the step that hands 'BEGIN;' to the driver, _lock is 0 and no
\* locking operation dispatched through the wrapper is still awaiting its
\* completion callback.
C1_BeginExcludesLocks ==
  [][Issued("BEGIN") => (lock' = 0 /\ inflight' = {})]_vars

\* BEGIN of a request is outstanding after a locking operation, dispatched
\* while no transaction was current, has completed.
C1_Witness ==
  \E c \in pending :
     /\ c.cmd = "BEGIN"
     /\ \E i \in 1..Len(sent) :
          sent[i].type = "lock" /\ ~Deferred(sent[i].id) /\ sent[i].id \notin inflight

\* C6: _lock equals the number of locking operations handed to the driver
\* whose completion has not fired (so it is never negative, and 0 when none
\* is outstanding).
C6_LockAccounting ==
  /\ lock = Cardinality(inflight)
  /\ lock >= 0
  /\ \A i \in 1..Len(thrown) : thrown[i] # "Locks are not balanced"

\* A deferred locking operation was dispatched by a drain and has completed
\* while another locking operation is still outstanding.
C6_Witness ==
  /\ lock = 1
  /\ \E i \in 1..Len(sent) :
       sent[i].type = "lock" /\ Deferred(sent[i].id) /\ sent[i].id \notin inflight

----------------------------------------------------------------------------
\* the commands of kind k handed to the driver by closure b
Cmds(k, b) == {c \in cmds : c.cmd = k /\ c.tx = b}

\* the results delivered to the callback of begin request b
BeginResults(b) == {beginCb[b][i] : i \in 1..Len(beginCb[b])}

\* index of the first queued beginTransaction request of q, 0 when there is none
FirstBegin(q) ==
  IF \E i \in 1..Len(q) : q[i].type = "transaction"
    THEN CHOOSE i \in 1..Len(q) :
           /\ q[i].type = "transaction"
           /\ \A j \in 1..(i - 1) : q[j].type # "transaction"
    ELSE 0

\* this step completes command c and runs finishTransaction
FinishStep(c) ==
  /\ c \in pending /\ c \notin pending'
  /\ \/ c.cmd = "ROLLBACK"
     \/ c.cmd = "COMMIT" /\ callCb'[c.call] = Append(callCb[c.call], "ok")

\* C2: a wrapped call issued while a transaction is current is not
\* dispatched before that transaction has finished; deferred calls reach
\* the driver in the order they were issued, each at most once.
C2_FifoDuringTransaction ==
  /\ \A i \in 1..Len(sent) :
        Deferred(sent[i].id) => finished[ops[sent[i].id].under]
  /\ \A i, j \in 1..Len(sent) :
        (i < j /\ Deferred(sent[i].id) /\ Deferred(sent[j].id))
           => sent[i].id < sent[j].id
  /\ \A i, j \in 1..Len(sent) : sent[i].id = sent[j].id => i = j

\* the drain of a finish that finds a begin request queued: the entries
\* ahead go to the driver in order, the request is re-invoked, the rest stays
C3_DrainStep ==
  \A c \in pending :
    (FinishStep(c) /\ FirstBegin(queue) # 0) =>
       LET p == FirstBegin(queue)
       IN /\ sent' = sent \o SubSeq(queue, 1, p - 1)
          /\ queue' = SubSeq(queue, p + 1, Len(queue))
          /\ currentTransaction' = queue[p].id
          /\ \E b \in cmds' \cup waiters' : b.cmd = "BEGIN" /\ b.tx = queue[p].id

\* an entry queued behind a begin request is not dispatched before the
\* transaction of that request has finished
C3_Behind ==
  \A o \in 1..Len(ops) :
     (Deferred(o) /\ ops[o].after # NULL /\ Dispatched(o)) => finished[ops[o].after]

\* C3: when a transaction finishes with a begin request queued, the drain
\* dispatches the entries ahead of it in order, re-invokes the request and
\* stops; the entries behind it stay queued until the transaction that the
\* request started has itself finished.
C3_QueueBeginInterleave == [][C3_DrainStep]_vars /\ []C3_Behind

\* C4: per transaction 'COMMIT;' reaches the driver at most once, and at
\* most one commit()/rollback() call gets anything but "already finished".
C4_IdempotentFinish ==
  \A k \in Tx :
    /\ Cardinality(Cmds("COMMIT", k)) <= 1
    /\ Cardinality({i \in 1..Len(calls) :
           calls[i].tx = k /\ callCb[i] # <<>> /\ callCb[i][1] # "already"}) <= 1

\* C5: when the compensating ROLLBACK of a failed COMMIT completes, the
\* commit callback is invoked, once, with the COMMIT error.
C5_CommitFailureCompensation ==
  [][\A c \in pending :
       (c.cmd = "ROLLBACK" /\ c.comp /\ c \notin pending')
          => callCb'[c.call] = <<"err">>]_vars

\* request b has started a transaction that is neither failed nor finished
Open(b) ==
  /\ \E c \in cmds \cup waiters : c.cmd = "BEGIN" /\ c.tx = b
  /\ "err" \notin BeginResults(b)
  /\ ~finished[b]

\* C7: at most one transaction is Beginning, Active or Finishing.
C7_AtMostOneOpen == Cardinality({b \in Tx : Open(b)}) <= 1

\* C8: a failed BEGIN delivers the error and no handle, and leaves no
\* current transaction behind.
C8_BeginFailureIdle ==
  \A b \in Tx :
    "err" \in BeginResults(b) => (beginCb[b] = <<"err">> /\ currentTransaction # b)

\* C9: commit()/rollback() on the handle of a finished transaction calls
\* back at once with "already finished", changes nothing and sends nothing.
C9_FinishedHandleInert ==
  [][(Len(calls') > Len(calls) /\ finished[calls'[Len(calls')].on])
       => /\ callCb'[Len(calls')] = <<"already">>
          /\ UNCHANGED <<lock, queue, currentTransaction, cmds, sent, waiters>>]_vars

----------------------------------------------------------------------------
(* Liveness.  The driver completes every command and every locking         *)
(* operation it was handed, and an armed timer fires; nothing is assumed   *)
(* of the application.                                                     *)
Fairness ==
  /\ WF_vars(\E o \in inflight : Complete(o))
  /\ WF_vars(\E c \in waiters : Check(c))
  /\ WF_vars(\E c \in pending, err \in BOOLEAN : BeginDone(c, err))
  /\ WF_vars(\E c \in pending, err \in BOOLEAN : CommitDone(c, err))
  /\ WF_vars(\E c \in pending, err \in BOOLEAN : RollbackDone(c, err))

FairSpec == Spec /\ Fairness

FairDeepSpec == DeepSpec /\ Fairness

\* two begin requests, two commit/rollback calls, one wrapped call
PairNext ==
  \/ \E t \in OpTypes : CallN(t, PairOps)
  \/ BeginN(PairTx)
  \/ \E h \in Tx : CommitN(h, PairCalls)
  \/ \E h \in Tx : RollbackN(h, PairCalls)
  \/ \E o \in inflight : Complete(o)
  \/ \E c \in waiters : Check(c)
  \/ \E c \in pending, err \in BOOLEAN : BeginDone(c, err)
  \/ \E c \in pending, err \in BOOLEAN : CommitDone(c, err)
  \/ \E c \in pending, err \in BOOLEAN : RollbackDone(c, err)

PairSpec == Init /\ [][PairNext]_vars

FairPairSpec == PairSpec /\ Fairness

\* request b is queued with no other begin request ahead of it
QueuedFirst(b) == FirstBegin(queue) # 0 /\ queue[FirstBegin(queue)].id = b

\* a commit() of closure k has called back without error
CommittedOK(k) ==
  \E i \in 1..Len(calls) :
     calls[i].kind = "commit" /\ calls[i].tx = k /\ callCb[i] = <<"ok">>

\* BEGIN of request b was sent and its callback has been invoked once
Resolved(b) == Cmds("BEGIN", b) # {} /\ Len(beginCb[b]) = 1

\* C10: a begin request made while a transaction is current is queued with
\* its callback not invoked; if the first transaction is eventually
\* committed, the BEGIN of the second request is eventually sent and its
\* callback invoked, once.
C10_SecondBeginResolves ==
  /\ [](\A b \in Tx :
         /\ Len(beginCb[b]) <= 1
         /\ (\E i \in 1..Len(queue) :
                queue[i].type = "transaction" /\ queue[i].id = b) => beginCb[b] = <<>>)
  /\ (<>CommittedOK(1)) =>
        ((QueuedFirst(2) /\ currentTransaction = 1) ~> Resolved(2))

----------------------------------------------------------------------------
\* operation o waits in the queue
InQueue(o) == \E i \in 1..Len(queue) : queue[i].type # "transaction" /\ queue[i].id = o

\* the application has called commit() or rollback() on the handle of request b
FinishCalled(b) == \E i \in 1..Len(calls) : calls[i].on = b

\* the application finishes every transaction whose handle it received
AppFinishes == \A b \in 1..DeepTx : [](HasHandle(b) => <>FinishCalled(b))

\* C11: when every dispatched locking operation completes and every
\* transaction whose handle was delivered is eventually committed or rolled
\* back, a wrapped call placed in the queue is eventually dispatched,
\* whatever the outcomes of BEGIN, COMMIT and ROLLBACK.
C11_QueuedEventuallyRuns ==
  AppFinishes => \A o \in 1..DeepOps : InQueue(o) ~> Dispatched(o)

\* an 'error' event was emitted while request b was Active
ErroredActive(b) == \E i \in 1..Len(errors) : errors[i].active = b

\* C12: after an 'error' event of the connection while a transaction is
\* Active, 'ROLLBACK;' is eventually sent for that transaction and it
\* becomes finished.
C12_AutomaticRollback ==
  \A b \in 1..DeepTx :
     ErroredActive(b) ~> (Cmds("ROLLBACK", b) # {} /\ finished[b])

\* whenever a commit() or rollback() is suspended in _wait and _lock is 0,
\* its timer can still fire: the program has not stopped
C15_WaitEnds ==
  \A c \in waiters : (c.cmd \in {"COMMIT", "ROLLBACK"} /\ lock = 0) => ~halted

\* 'COMMIT;' and 'ROLLBACK;' are handed to the driver only with _lock at 0
C15_SentAtZero ==
  [][(Issued("COMMIT") \/ Issued("ROLLBACK")) => (lock = 0 /\ lock' = 0)]_vars

Drained ==
  LET p == FirstBegin(queue)
  IN IF p = 0
       THEN /\ queue' = <<>>
            /\ currentTransaction' = NULL
            /\ sent' = sent \o queue
       ELSE /\ queue' = SubSeq(queue, p + 1, Len(queue))
            /\ currentTransaction' = queue[p].id
            /\ sent' = sent \o SubSeq(queue, 1, p - 1)

\* C13: in the step where 'COMMIT;' completes without error the transaction
\* is marked finished, the reference is cleared and the queue drained up to
\* and including the first queued begin request; the commit callback is
\* invoked exactly once, with no error, and finds all of that already done.
C13_CommitSuccessOrdering ==
  [][\A c \in pending :
       (c.cmd = "COMMIT" /\ c \notin pending' /\ ~lastErr')
          => /\ finished'[c.tx]
             /\ Drained
             /\ callCb'[c.call] = <<"ok">>
             /\ seen' = <<[call |-> c.call, cur |-> currentTransaction',
                           queue |-> queue', fin |-> finished']>>]_vars

\* a commit() was answered with no error after its transaction finished, a
\* deferred call was dispatched and a queued begin request became current
C13_Witness ==
  /\ \E i \in 1..Len(calls) :
        calls[i].kind = "commit" /\ callCb[i] = <<"ok">> /\ finished[calls[i].tx]
  /\ \E o \in 1..Len(ops) : Deferred(o) /\ Dispatched(o)
  /\ currentTransaction # NULL

\* C14: in the step where the 'ROLLBACK;' of a rollback() completes, with or
\* without error, the transaction is marked finished, the reference is
\* cleared and the queue drained, and the rollback callback has been invoked
\* exactly once: with the ROLLBACK error if there was one, else with no error.
C14_RollbackAlwaysFinishes ==
  [][\A c \in pending :
       (c.cmd = "ROLLBACK" /\ ~c.comp /\ c \notin pending')
          => /\ finished'[c.tx]
             /\ Drained
             /\ callCb'[c.call] = <<IF lastErr' THEN "err" ELSE "ok">>]_vars

\* a rollback() was answered with the ROLLBACK error, its transaction is
\* finished and a deferred call was dispatched by the drain
C14_Witness ==
  /\ \E i \in 1..Len(calls) :
        calls[i].kind = "rollback" /\ callCb[i] = <<"err">> /\ finished[calls[i].tx]
  /\ \E o \in 1..Len(ops) : Deferred(o) /\ Dispatched(o)

\* C16: a wrapped call made while nothing is current goes to the driver at
\* once, leaves the queue alone and raises _lock by one exactly when the
\* method is a locking one; a wrapped call made while a transaction is
\* current adds one entry at the tail of the queue, sends nothing and leaves
\* _lock and the reference alone.
C16_DispatchVersusDeferral ==
  [][Len(ops') > Len(ops) =>
       LET item == [type |-> ops'[Len(ops')].type, id |-> Len(ops')]
       IN IF currentTransaction = NULL
            THEN /\ sent' = Append(sent, item)
                 /\ queue' = queue
                 /\ lock' = lock + (IF item.type \in lockMethods THEN 1 ELSE 0)
            ELSE /\ queue' = Append(queue, item)
                 /\ sent' = sent /\ cmds' = cmds /\ inflight' = inflight
                 /\ lock' = lock
                 /\ currentTransaction' = currentTransaction]_vars

\* a locking call was dispatched at once and another call sits in the queue
C16_Witness ==
  /\ \E o \in 1..Len(ops) :
        ~Deferred(o) /\ Dispatched(o) /\ ops[o].type \in lockMethods
  /\ \E o \in 1..Len(ops) :
        Deferred(o) /\ InQueue(o) /\ ops[o].type \in lockMethods

C18_ImbalanceNeverAbsorbed ==
  /\ [][dups' > dups =>
          /\ thrown' = Append(thrown, "Locks are not balanced")
          /\ lock' = lock]_vars
  /\ [](lock >= Cardinality(inflight))

\* C18, amended: a second completion makes the wrapper throw 'Locks are not
\* balanced', without decrementing, exactly when _lock is 0; while other
\* locking operations are outstanding it is absorbed: _lock is decremented
\* and nothing is thrown.  _lock never goes negative.
C18_ImbalanceAtZero ==
  /\ [][dups' > dups =>
          IF lock = 0
            THEN thrown' = Append(thrown, "Locks are not balanced") /\ lock' = 0
            ELSE lock' = lock - 1 /\ thrown' = thrown]_vars
  /\ [](lock >= 0)

\* a duplicated completion arrived with _lock at 0 and the wrapper threw
C18_Witness ==
  /\ dups = 1
  /\ lock = 0
  /\ \E i \in 1..Len(thrown) : thrown[i] = "Locks are not balanced"

\* C19: the step that clears the reference and drains the queue runs at
\* most once per transaction, and only while that transaction is the current
\* one: a late or duplicate finish never runs it under a later transaction.
C19_FinishBelongsToOwnTransaction ==
  [][\A c \in pending :
       FinishStep(c) => (~finished[c.tx] /\ currentTransaction = c.tx)]_vars

\* C20: while a transaction is current, in every step but its own finish
\* step, no locking call is handed to the driver and _lock does not grow.
C20_LockCannotGrowUnderTransaction ==
  [][(/\ currentTransaction # NULL
      /\ ~\E c \in pending : FinishStep(c) /\ c.tx = currentTransaction)
        => /\ lock' <= lock
           /\ Len(sent') >= Len(sent)
           /\ \A i \in (Len(sent) + 1)..Len(sent') :
                 sent'[i].type \notin lockMethods]_vars

====
